---- MODULE Spec2Model ----
(***************************************************************************)
(* NewsAgg-Mini (src/main.py): the keyword topic matcher, the classifier   *)
(* and the JSON article store.                                             *)
(*                                                                         *)
(* Strings are sequences of code points (naturals), so that Python's       *)
(* str comparison (code point by code point), str.lower() and the `in`     *)
(* substring test are computed rather than assumed.                        *)
(***************************************************************************)
EXTENDS Naturals, Sequences, FiniteSets

----------------------------------------------------------------------------
(* Bounds of the model.                                                    *)

\* Longest batch drawn from the small article pool.
MaxBatch == 2
\* Number of store operations (save / load / interrupted write) in one behaviour.
MaxOps == 2
\* Number of store operations in one behaviour of the retention specification.
MaxCapOps == 4
\* Longest text handed to Topic.matches.
MaxTextLen == 3
\* Longest topic list of a Classifier.
MaxTopics == 2
\* Longest article list handed to classify.
MaxArticles == 2
\* Most entries one feed returns.
MaxEntries == 1
\* Size of the bulk batch of the retention scenario (more than the cap).
BulkSize == 110

\* Storage.save_articles: all_articles[:100]
Cap == 100

----------------------------------------------------------------------------
(* Strings.                                                                *)

\* Python str < str: lexicographic by code point, a proper prefix is smaller.
StrLess(s, t) ==
    \E k \in 1..(Len(t)) :
        /\ \A j \in 1..(k - 1) : j <= Len(s) /\ s[j] = t[j]
        /\ k - 1 <= Len(s)
        /\ (k > Len(s) \/ s[k] < t[k])

\* str.lower() on ASCII text.
Lower(s) == [i \in 1..Len(s) |-> IF s[i] \in 65..90 THEN s[i] + 32 ELSE s[i]]

\* Python `word in text` on strings: word occurs as a contiguous substring.
Contains(word, text) ==
    \E i \in 1..(Len(text) - Len(word) + 1) :
        \A j \in 1..Len(word) : text[i + j - 1] = word[j]

\* Three decimal digits of n, as text ("007").
Digits3(n) == <<48 + (n \div 100), 48 + ((n \div 10) % 10), 48 + (n % 10)>>

Take(s, n) == IF Len(s) <= n THEN s ELSE SubSeq(s, 1, n)

Range(s) == {s[i] : i \in 1..Len(s)}

----------------------------------------------------------------------------
(* Article.                                                                *)

\* The value datetime.now(timezone.utc).isoformat() takes when an article is
\* built without a published stamp ("999": later than every stamp used here).
NowStamp == <<57, 57, 57>>

\* content = f"{source}|{url}|{title}"; the md5 digest of it is kept as the
\* content itself (the digest is taken to be collision free).
Fingerprint(source, url, title) == source \o <<124>> \o url \o <<124>> \o title

\* Article.__init__
NewArticle(title, url, source, summary, published) ==
    [ id        |-> Fingerprint(source, url, title),
      title     |-> title,
      url       |-> url,
      source    |-> source,
      summary   |-> summary,
      published |-> IF published = <<>> THEN NowStamp ELSE published,
      topics    |-> <<>> ]

\* Article.to_dict
ToDict(a) ==
    [ id |-> a.id, title |-> a.title, url |-> a.url, source |-> a.source,
      summary |-> a.summary, published |-> a.published, topics |-> a.topics ]

\* Article.from_dict
FromDict(d) ==
    [ NewArticle(d.title, d.url, d.source, d.summary, d.published)
        EXCEPT !.id = d.id, !.topics = d.topics ]

----------------------------------------------------------------------------
(* Topic.                                                                  *)

\* Topic.__init__: keywords and exclude words are stored lowercased.
NewTopic(name, keywords, exclude_words) ==
    [ name          |-> name,
      keywords      |-> [i \in 1..Len(keywords) |-> Lower(keywords[i])],
      exclude_words |-> [i \in 1..Len(exclude_words) |-> Lower(exclude_words[i])] ]

\* (a variant: the include keywords are looked at before the exclude words)
MatchesIncludeFirst(topic, text) ==
    LET text_lower == Lower(text)
    IN  IF \E i \in 1..Len(topic.keywords) : Contains(topic.keywords[i], text_lower)
        THEN TRUE
        ELSE FALSE

\* Topic.matches
Matches(topic, text) ==
    LET text_lower == Lower(text)
    IN  IF \E i \in 1..Len(topic.exclude_words) :
              Contains(topic.exclude_words[i], text_lower)
        THEN FALSE
        ELSE \E i \in 1..Len(topic.keywords) : Contains(topic.keywords[i], text_lower)

----------------------------------------------------------------------------
(* Classifier.                                                             *)

Uncategorized == <<117, 110, 99, 97, 116, 101, 103, 111, 114, 105, 122, 101, 100>>   \* "uncategorized"

\* (a variant: the title alone is searched)
SearchTextTitleOnly(article) == article.title

\* search_text = f"{article.title} {article.summary}"
SearchText(article) == article.title \o <<32>> \o article.summary

\* The inner loop of classify over self.topics[t..] for article i. st holds the
\* buckets (lists of positions in the article list: a bucket holds the Article
\* objects themselves, so it sees the topics appended to them), the articles
\* and the matched flag.
RECURSIVE TopicLoop(_, _, _, _)
TopicLoop(st, tps, i, t) ==
    IF t > Len(tps) THEN st
    ELSE TopicLoop(
            IF Matches(tps[t], SearchText(st.articles[i]))
            THEN [st EXCEPT !.result[tps[t].name] = Append(@, i),
                            !.articles[i].topics = Append(@, tps[t].name),
                            !.matched = TRUE]
            ELSE st,
            tps, i, t + 1)

\* The outer loop of classify over articles[i..].
RECURSIVE ArticleLoop(_, _, _)
ArticleLoop(st, tps, i) ==
    IF i > Len(st.articles) THEN st
    ELSE LET done == TopicLoop([st EXCEPT !.matched = FALSE], tps, i, 1)
         IN  ArticleLoop(
                IF ~done.matched
                THEN [done EXCEPT !.result[Uncategorized] = Append(@, i)]
                ELSE done,
                tps, i + 1)

\* (a variant: the empty buckets are left in the result)
KeepEmpty(result) == result

\* result = {k: v for k, v in result.items() if v}
DropEmpty(result) ==
    [k \in {n \in DOMAIN result : result[n] # <<>>} |-> result[k]]

\* Classifier.classify: the returned mapping and the articles as it leaves them.
Classify(tps, arts) ==
    LET names == {tps[t].name : t \in 1..Len(tps)} \cup {Uncategorized}
        st0   == [result |-> [k \in names |-> <<>>], articles |-> arts,
                  matched |-> FALSE]
        st    == ArticleLoop(st0, tps, 1)
    IN  [result |-> DropEmpty(st.result), articles |-> st.articles]

----------------------------------------------------------------------------
(* Storage: one JSON file per partition key, <data_dir>/<topic>_articles.json *)

\* Partition keys: "all" and "AI".
Keys == { <<97, 108, 108>>, <<65, 73>> }

Missing    == [kind |-> "missing", data |-> <<>>]
\* A file whose content json.load rejects (e.g. a write cut short).
Corrupt    == [kind |-> "corrupt", data |-> <<>>]
JsonFile(dicts) == [kind |-> "json", data |-> dicts]

VARIABLES
    files,      \* Storage: key -> content of <key>_articles.json
    last,       \* the last store operation: its arguments and what it returned
    nops,       \* number of store operations performed
    topics,     \* Classifier.topics
    articles,   \* the list handed to classify (its Article objects)
    classified, \* what classify returned
    text,       \* the text handed to Topic.matches
    topic,      \* the Topic whose matches is called
    matched,    \* what Topic.matches returned ("unset" before the call)
    pc,         \* per process: where it is in save_articles
    job,        \* per process: the arguments of its save_articles call
    local,      \* per process: existing_articles / existing_ids / what it writes
    reported,   \* per process: <<key, id>> of every article a save reported as new
    lock,       \* per partition: the process inside its exclusion region
    locking,    \* whether save_articles runs inside the exclusion region
    mainPc,     \* main: where the run is
    feed,       \* main: number of feeds fetched so far
    pending,    \* main: the items of classified the save loop has yet to visit
    saves,      \* main: the save_articles calls made, in order
    reports,    \* main: the reporter.generate calls made
    exitCode    \* main: what it returned ("none" while running)

storeVars == <<files, last, nops>>
clsVars   == <<topics, articles, classified>>
matchVars == <<text, topic, matched>>
procVars  == <<pc, job, local, reported, lock, locking>>
mainVars  == <<mainPc, feed, pending, saves, reports, exitCode>>
vars      == <<storeVars, clsVars, matchVars, procVars, mainVars>>

\* (a variant: the read of the existing file without the try/except around it)
LoadExistingUnguarded(f) ==
    IF f.kind = "json"
    THEN [ raised   |-> FALSE,
           articles |-> [i \in 1..Len(f.data) |-> FromDict(f.data[i])],
           ids      |-> {f.data[i].id : i \in 1..Len(f.data)} ]
    ELSE [ raised |-> f.kind = "corrupt", articles |-> <<>>, ids |-> {} ]

\* save_articles, lines 252-262: the articles already stored and their ids.
\* A file that is missing, or that cannot be read back, gives the empty baseline:
\* the except clause logs and leaves both empty.
LoadExisting(f) ==
    IF f.kind = "json"
    THEN [ raised   |-> FALSE,
           articles |-> [i \in 1..Len(f.data) |-> FromDict(f.data[i])],
           ids      |-> {f.data[i].id : i \in 1..Len(f.data)} ]
    ELSE [ raised |-> FALSE, articles |-> <<>>, ids |-> {} ]

\* (a variant: every incoming article is merged, known or not)
NewArticlesUnfiltered(batch, existing_ids) == batch

\* new_articles = [a for a in articles if a.id not in existing_ids]
NewArticles(batch, existing_ids) ==
    LET IsNew(a) == a.id \notin existing_ids
    IN  SelectSeq(batch, IsNew)

\* key=lambda a: a.published or ""
SortKey(a) == a.published

\* Where a stable descending sort puts x in a list already sorted: behind the
\* last element whose key is not smaller than x's. Found by bisection: every
\* element up to lo has a key >= x's, every element after hi a smaller one.
RECURSIVE InsertionPoint(_, _, _, _)
InsertionPoint(sorted, x, lo, hi) ==
    IF lo >= hi THEN lo
    ELSE LET mid == (lo + hi + 1) \div 2
         IN  IF StrLess(SortKey(sorted[mid]), SortKey(x))
             THEN InsertionPoint(sorted, x, lo, mid - 1)
             ELSE InsertionPoint(sorted, x, mid, hi)

InsertDescending(sorted, x) ==
    LET k == InsertionPoint(sorted, x, 0, Len(sorted))
    IN  SubSeq(sorted, 1, k) \o <<x>> \o SubSeq(sorted, k + 1, Len(sorted))

\* The elements s[i..] inserted one after the other into acc.
RECURSIVE SortInto(_, _, _)
SortInto(acc, s, i) ==
    IF i > Len(s) \/ Len(acc) < 0 THEN acc
    ELSE SortInto(InsertDescending(acc, s[i]), s, i + 1)

\* list.sort(key=..., reverse=True): stable, descending by key (binary insertion,
\* as list.sort does on short runs; the result of a stable sort is unique).
SortDescending(s) == SortInto(<<>>, s, 1)

\* (a variant: the sort without the truncation that follows it)
RetainAll(all_articles) == SortDescending(all_articles)

\* (a variant: the truncation done before the sort)
RetainUnsorted(all_articles) == SortDescending(Take(all_articles, Cap))

\* all_articles.sort(...); all_articles = all_articles[:100]
Retain(all_articles) == Take(SortDescending(all_articles), Cap)

\* (a variant: only the new articles are written back)
AllArticlesNewOnly(existing_articles, new_articles) == new_articles

\* all_articles = existing_articles + new_articles
AllArticles(existing_articles, new_articles) == existing_articles \o new_articles

\* json.dump([a.to_dict() for a in all_articles], f, indent=2)
Dump(all_articles) ==
    JsonFile([i \in 1..Len(all_articles) |-> ToDict(all_articles[i])])

\* Storage.save_articles: what is written and what is returned.
SaveResult(batch, f) ==
    LET ex   == LoadExisting(f)
        new  == NewArticles(batch, ex.ids)
        kept == Retain(AllArticles(ex.articles, new))
    IN  IF ex.raised
        THEN [raised |-> TRUE, file |-> f, added |-> 0]
        ELSE [raised |-> FALSE, file |-> Dump(kept), added |-> Len(new)]

\* Storage.load_articles: [] for a missing file and for one that cannot be read
\* back (the except clause logs and returns []).
LoadResult(f) ==
    IF f.kind = "missing" THEN [raised |-> FALSE, articles |-> <<>>]
    ELSE IF f.kind = "json"
    THEN [raised |-> FALSE,
          articles |-> [i \in 1..Len(f.data) |-> FromDict(f.data[i])]]
    ELSE [raised |-> FALSE, articles |-> <<>>]

----------------------------------------------------------------------------
(* The articles saved.                                                     *)

Src == <<115>>                       \* "s"
Ttl == <<116>>                       \* "t"
Url(n) == <<117>> \o Digits3(n)      \* "u007"

\* A1 and A1v share source, url and title (one fingerprint) and differ in
\* summary, published and topics. "9" is greater than "205" as a string.
A1  == NewArticle(Ttl, Url(1), Src, <<>>, <<50, 48, 53>>)
A1v == [NewArticle(Ttl, Url(1), Src, <<120>>, <<57>>) EXCEPT !.topics = << <<65, 73>> >>]
\* A2 carries the same stamp ("050") as one article of the bulk batch.
A2  == NewArticle(Ttl, Url(2), Src, <<>>, <<48, 53, 48>>)

Pool == {A1, A1v, A2}

\* BulkSize articles with distinct fingerprints and descending stamps.
Bulk == [i \in 1..BulkSize |->
            NewArticle(Ttl, Url(100 + i), Src, <<>>, Digits3(BulkSize + 1 - i))]

\* Batches of the small pool, repeats included.
Batches == UNION {[1..n -> Pool] : n \in 0..MaxBatch}
\* The bulk batch, and single articles around it.
CapBatches == {Bulk} \cup {<<a>> : a \in Pool}

----------------------------------------------------------------------------
(* Store operations.                                                       *)

NoOp == [op |-> "none", key |-> <<>>, batch |-> <<>>, before |-> Missing,
         added |-> 0, result |-> <<>>, raised |-> FALSE]

NotClassified == [result |-> <<>>, done |-> FALSE]
NoTopic == NewTopic(<<>>, <<>>, <<>>)
Procs == {"p", "q"}

StoreInit ==
    /\ files = [k \in Keys |-> Missing]
    /\ last = NoOp
    /\ nops = 0

ClsIdle ==
    /\ topics = <<>>
    /\ articles = <<>>
    /\ classified = NotClassified

MatchIdle ==
    /\ text = <<>>
    /\ topic = NoTopic
    /\ matched = "unset"

\* No process is in save_articles; the program itself has no exclusion region.
ProcIdle ==
    /\ pc = [p \in Procs |-> "idle"]
    /\ job = [p \in Procs |-> [batch |-> <<>>, key |-> <<>>]]
    /\ local = [p \in Procs |-> [articles |-> <<>>, ids |-> {}, new |-> <<>>]]
    /\ reported = [p \in Procs |-> {}]
    /\ lock = [k \in Keys |-> "free"]
    /\ locking = FALSE

\* main has not started.
MainIdle ==
    /\ mainPc = "idle"
    /\ feed = 0
    /\ pending = <<>>
    /\ saves = <<>>
    /\ reports = 0
    /\ exitCode = "none"

Init == StoreInit /\ ClsIdle /\ MatchIdle /\ ProcIdle /\ MainIdle

\* storage.save_articles(articles, topic)
SaveArticles(batch, key) ==
    LET r == SaveResult(batch, files[key])
    IN  /\ files' = [files EXCEPT ![key] = r.file]
        /\ last' = [op |-> "save", key |-> key, batch |-> batch,
                    before |-> files[key], added |-> r.added,
                    result |-> <<>>, raised |-> r.raised]
        /\ nops' = nops + 1
        /\ UNCHANGED <<clsVars, matchVars, procVars, mainVars>>

\* storage.load_articles(topic)
LoadArticles(key) ==
    /\ last' = [op |-> "load", key |-> key, batch |-> <<>>,
                before |-> files[key], added |-> 0,
                result |-> LoadResult(files[key]).articles,
                raised |-> LoadResult(files[key]).raised]
    /\ nops' = nops + 1
    /\ UNCHANGED <<files, clsVars, matchVars, procVars, mainVars>>

\* A save that dies between open(file_path, 'w') and the end of json.dump
\* leaves a file that json.load rejects.
InterruptedWrite(key) ==
    /\ files' = [files EXCEPT ![key] = Corrupt]
    /\ last' = [NoOp EXCEPT !.op = "interrupted", !.key = key,
                            !.before = files[key]]
    /\ nops' = nops + 1
    /\ UNCHANGED <<clsVars, matchVars, procVars, mainVars>>

Next ==
    \/ \E b \in Batches, k \in Keys : nops < MaxOps /\ SaveArticles(b, k)
    \/ \E k \in Keys : nops < MaxOps /\ LoadArticles(k)
    \/ \E k \in Keys : nops < MaxOps /\ InterruptedWrite(k)

Spec == Init /\ [][Next]_vars

\* The store on one partition with batches larger than the retention cap.
NextCap ==
    \/ \E b \in CapBatches : nops < MaxCapOps /\ SaveArticles(b, <<97, 108, 108>>)
    \/ nops < MaxCapOps /\ LoadArticles(<<97, 108, 108>>)

SpecCap == Init /\ [][NextCap]_vars

----------------------------------------------------------------------------
(* Properties of the store.                                                *)

AllKey == <<97, 108, 108>>

Ids(dicts) == {dicts[i].id : i \in 1..Len(dicts)}
Count(seq, r) == Cardinality({i \in 1..Len(seq) : seq[i] = r})
WithId(seq, e) == LET Has(r) == r.id = e IN SelectSeq(seq, Has)
Min(a, b) == IF a <= b THEN a ELSE b

\* What the last save read, was given, and wrote.
Before == last.before.data
After  == files[last.key].data
Saved  == last.op = "save"
\* The articles of the batch whose fingerprint the partition did not hold.
Incoming == LET Unknown(a) == \A i \in 1..Len(Before) : Before[i].id # a.id
            IN  SelectSeq(last.batch, Unknown)

\* C1: after any save the persisted partition holds no two articles with the
\* same fingerprint.
UniqueFingerprints ==
    \A k \in Keys : \A i, j \in 1..Len(files[k].data) :
        files[k].data[i].id = files[k].data[j].id => i = j

\* C2: a save repeated at once with the same batch on the same partition
\* returns 0 and leaves the partition as the first save left it.
IdempotentSave ==
    [][ ( /\ Saved /\ last'.op = "save"
          /\ last'.key = last.key /\ last'.batch = last.batch )
        => (last'.added = 0 /\ files' = files) ]_vars

\* C3: whatever was saved, load_articles returns at most 100 articles.
CapInvariant ==
    /\ \A k \in Keys : Len(LoadResult(files[k]).articles) <= Cap
    /\ last.op = "load" => Len(last.result) <= Cap

\* A load that follows a save whose merged list was longer than the cap.
CapReached ==
    /\ last.op = "load"
    /\ Len(last.result) = Cap
    /\ \E i \in 1..BulkSize : \A j \in 1..Len(last.result) : last.result[j] # Bulk[i]

\* C4: a save leaves the first 100 of (existing articles, then the new ones of
\* the batch) in descending string order of `published`: the result is in
\* descending order, is made of merged articles only, has min(100, merged)
\* entries, and nothing left out is more recent than anything kept. 110
\* distinct articles saved to an empty partition leave the 100 most recent.
KeepsMostRecent ==
    Saved =>
        LET merged == Before \o Incoming
        IN  /\ Len(After) = Min(Cap, Len(merged))
            /\ \A i \in 1..(Len(After) - 1) :
                  ~StrLess(After[i].published, After[i + 1].published)
            /\ \A r \in Range(merged) :
                  /\ Count(After, r) <= Count(merged, r)
                  /\ Count(After, r) < Count(merged, r) =>
                        ~StrLess(After[Len(After)].published, r.published)
            /\ Range(After) \subseteq Range(merged)
            /\ (last.batch = Bulk /\ Before = <<>>) =>
                  After = [i \in 1..Cap |-> Bulk[i]]

\* A save onto a full partition of an article more recent than all of it.
EvictsOldest ==
    /\ Saved /\ Len(Before) = Cap /\ last.added = 1
    /\ After[1] = last.batch[1]
    /\ After[Cap] = Before[Cap - 1]

\* C5: an incoming article whose fingerprint is already stored is dropped: the
\* save adds no entry under that fingerprint and changes none (an entry can
\* only leave with the tail the cap cuts off).
NoUpdateInPlace ==
    Saved =>
        \A e \in Ids(Before) \cap Ids(last.batch) :
            LET was == WithId(Before, e)
                is  == WithId(After, e)
            IN  /\ Len(is) <= Len(was)
                /\ is = SubSeq(was, 1, Len(is))
                /\ Len(Before) + last.added <= Cap => is = was

\* A save of a copy that differs from the stored article in summary, published
\* and topics.
IncomingCopyDiffers ==
    /\ Saved
    /\ \E i \in 1..Len(last.batch), j \in 1..Len(Before) :
          /\ last.batch[i].id = Before[j].id
          /\ last.batch[i].summary # Before[j].summary
          /\ last.batch[i].published # Before[j].published
          /\ last.batch[i].topics # Before[j].topics
          /\ After = Before

\* C6: a missing or unreadable file is an empty store: load_articles returns []
\* and save_articles counts the whole batch as new and writes exactly the
\* batch (sorted, capped), neither raising.
UnreadableIsEmpty ==
    last.before.kind \in {"missing", "corrupt"} =>
        /\ ~last.raised
        /\ last.op = "load" => last.result = <<>>
        /\ Saved =>
              /\ last.added = Len(last.batch)
              /\ files[last.key].kind = "json"
              /\ Len(After) = Min(Cap, Len(last.batch))
              /\ \A r \in Range(last.batch) :
                    Len(last.batch) <= Cap => Count(After, r) = Count(last.batch, r)
              /\ Range(After) \subseteq Range(last.batch)

\* A non-empty batch saved over a file that cannot be read back.
SavedOverCorrupt ==
    /\ Saved /\ last.before.kind = "corrupt"
    /\ last.added > 0 /\ files[last.key].kind = "json"

----------------------------------------------------------------------------
(* Topic.matches on its own.                                               *)

\* The letters of the texts: "A", "a", "i" and the space.
Alphabet == {65, 97, 105, 32}
Texts == UNION {[1..n -> Alphabet] : n \in 0..MaxTextLen}

\* keywords: ["ai"], ["AI"], ["i", "aa"]
KeywordLists == { <<<<97, 105>>>>, <<<<65, 73>>>>, <<<<105>>, <<97, 97>>>> }
\* exclude: [], ["a "], ["IA", "ii"]
ExcludeLists == { <<>>, <<<<97, 32>>>>, <<<<73, 65>>, <<105, 105>>>> }
MatchTopics == {NewTopic(<<84>>, kw, ex) : kw \in KeywordLists, ex \in ExcludeLists}

MatchInit ==
    /\ text \in Texts
    /\ topic \in MatchTopics
    /\ matched = "unset"

\* topic.matches(text)
CallMatches ==
    /\ matched = "unset"
    /\ matched' = IF Matches(topic, text) THEN "True" ELSE "False"
    /\ UNCHANGED <<text, topic, storeVars, clsVars, procVars, mainVars>>

NextMatch == CallMatches

InitMatch == StoreInit /\ ClsIdle /\ ProcIdle /\ MainIdle /\ MatchInit

SpecMatch == InitMatch /\ [][NextMatch]_vars

\* Two characters that are the same letter, case aside.
SameLetter(a, b) ==
    \/ a = b
    \/ a \in 65..90 /\ b = a + 32
    \/ b \in 65..90 /\ a = b + 32

\* word occurs in txt as a substring, case aside.
OccursIn(word, txt) ==
    \E i \in 1..(Len(txt) - Len(word) + 1) :
        \A j \in 1..Len(word) : SameLetter(txt[i + j - 1], word[j])

HasExclude == \E i \in 1..Len(topic.exclude_words) : OccursIn(topic.exclude_words[i], text)
HasKeyword == \E i \in 1..Len(topic.keywords) : OccursIn(topic.keywords[i], text)

\* C8: an exclude word in the text (case aside) makes matches false whatever
\* keywords are there too; without one, matches is true exactly when some
\* include keyword is in the text (case aside).
ExcludePrecedence ==
    matched # "unset" =>
        (matched = "True") <=> (IF HasExclude THEN FALSE ELSE HasKeyword)

\* A text holding both an exclude word and a keyword, in another case than
\* configured, and rejected.
ExcludedDespiteKeyword ==
    /\ matched = "False"
    /\ HasExclude /\ HasKeyword
    /\ \E i \in 1..Len(text) : text[i] \in 65..90

----------------------------------------------------------------------------
(* Classifier.classify on fetched articles.                                *)

TopicAI       == NewTopic(<<65, 73>>, <<<<97, 105>>, <<76, 76, 77>>>>, <<>>)
TopicSecurity == NewTopic(<<83, 101, 99, 117, 114, 105, 116, 121>>, <<<<104, 97, 99, 107>>>>, <<<<116, 104, 97, 105>>>>)
TopicFood     == NewTopic(<<70, 111, 111, 100>>, <<<<102, 111, 111, 100>>>>, <<>>)
TopicPool == {TopicAI, TopicSecurity, TopicFood}

\* Topic lists of a configuration: names are unique and none is the reserved
\* "uncategorized".
TopicLists ==
    {tl \in UNION {[1..n -> TopicPool] : n \in 0..MaxTopics} :
        \A i, j \in 1..Len(tl) : tl[i].name = tl[j].name => i = j}

\* Articles as RSSFetcher.fetch builds them (topics empty).
Fetched(title, summary) == NewArticle(title, Url(Len(title)), Src, summary, <<50, 48, 53>>)
ArticlePool == { Fetched(<<78, 101, 119, 32, 76, 76, 77>>, <<>>),     \* "New LLM"
                 Fetched(<<84, 104, 97, 105, 32, 102, 111, 111, 100>>, <<>>),     \* "Thai food"
                 Fetched(<<65, 73>>, <<104, 97, 99, 107>>),       \* "AI" / "hack"
                 Fetched(<<104, 97>>, <<99, 107>>) }      \* "ha" / "ck"
ArticleLists == UNION {[1..n -> ArticlePool] : n \in 0..MaxArticles}

ClsInit ==
    /\ topics \in TopicLists
    /\ articles \in ArticleLists
    /\ classified = NotClassified

\* classified = classifier.classify(all_articles)
CallClassify ==
    /\ ~classified.done
    /\ LET r == Classify(topics, articles)
       IN  /\ classified' = [result |-> r.result, done |-> TRUE]
           /\ articles' = r.articles
    /\ UNCHANGED <<topics, storeVars, matchVars, procVars, mainVars>>

NextClassify == CallClassify

InitClassify == StoreInit /\ ClsInit /\ MatchIdle /\ ProcIdle /\ MainIdle

SpecClassify == InitClassify /\ [][NextClassify]_vars

Buckets == DOMAIN classified.result
InBucket(name, i) ==
    /\ name \in Buckets
    /\ \E j \in 1..Len(classified.result[name]) : classified.result[name][j] = i
\* Topic t matches article i's title + " " + summary.
TopicMatches(t, i) ==
    Matches(topics[t], articles[i].title \o <<32>> \o articles[i].summary)
MatchingTopics(i) == {t \in 1..Len(topics) : TopicMatches(t, i)}
\* The k-th matching topic of article i, in the order of the topic list.
NthMatching(i, k) ==
    CHOOSE t \in MatchingTopics(i) :
        Cardinality({u \in MatchingTopics(i) : u < t}) = k - 1

\* C7: after classify an article is in a topic's bucket exactly when the topic
\* matches its title + " " + summary (and then once), and its `topics` lists
\* the names of its matching topics, each once, in topic order.
MultiLabel ==
    classified.done =>
        \A i \in 1..Len(articles) :
            /\ \A t \in 1..Len(topics) :
                  /\ InBucket(topics[t].name, i) <=> TopicMatches(t, i)
                  /\ TopicMatches(t, i) =>
                        Cardinality({j \in 1..Len(classified.result[topics[t].name]) :
                            classified.result[topics[t].name][j] = i}) = 1
            /\ Len(articles[i].topics) = Cardinality(MatchingTopics(i))
            /\ \A k \in 1..Len(articles[i].topics) :
                  articles[i].topics[k] = topics[NthMatching(i, k)].name

\* An article matched by two topics through its summary, in both buckets and
\* listing both.
InTwoBuckets ==
    /\ classified.done
    /\ \E i \in 1..Len(articles) :
          /\ Len(articles[i].topics) = 2
          /\ articles[i].summary # <<>>
          /\ \A t \in 1..2 : InBucket(topics[t].name, i)
          /\ articles[i].topics = <<topics[1].name, topics[2].name>>

\* C9: classify returns no empty bucket, puts exactly the articles no topic
\* matched under "uncategorized", and leaves no article out of every bucket.
NoEmptyGroupNoLoss ==
    classified.done =>
        /\ \A b \in Buckets : classified.result[b] # <<>>
        /\ \A b \in Buckets :
              b = Uncategorized \/ \E t \in 1..Len(topics) : topics[t].name = b
        /\ \A i \in 1..Len(articles) :
              /\ InBucket(Uncategorized, i) <=> MatchingTopics(i) = {}
              /\ \E b \in Buckets : InBucket(b, i)
        /\ Uncategorized \in Buckets =>
              \A j, k \in 1..Len(classified.result[Uncategorized]) :
                  j < k => classified.result[Uncategorized][j]
                             < classified.result[Uncategorized][k]

\* A run where one topic matched nothing (its bucket is gone) and one article
\* matched no topic.
TopicDroppedAndUncategorized ==
    /\ classified.done
    /\ \E t \in 1..Len(topics) : topics[t].name \notin Buckets
    /\ Uncategorized \in Buckets
    /\ \E b \in Buckets : b # Uncategorized

----------------------------------------------------------------------------
(* Two processes in save_articles on the same storage directory.           *)

\* local: what a process holds between its read and its write.
ProcInit ==
    /\ pc = [p \in Procs |-> "idle"]
    /\ job = [p \in Procs |-> [batch |-> <<>>, key |-> <<>>]]
    /\ local = [p \in Procs |-> [articles |-> <<>>, ids |-> {}, new |-> <<>>]]
    /\ reported = [p \in Procs |-> {}]
    /\ lock = [k \in Keys |-> "free"]
    /\ locking \in BOOLEAN

\* Entering the per-partition exclusion region around the load-merge-write cycle.
Acquire(p, key) ==
    IF locking
    THEN lock[key] = "free" /\ lock' = [lock EXCEPT ![key] = p]
    ELSE UNCHANGED lock

\* Leaving the region.
Release(p, key) ==
    IF locking
    THEN lock' = [lock EXCEPT ![key] = "free"]
    ELSE UNCHANGED lock

\* Batches of the concurrent saves: one article each.
ProcBatches == {<<a>> : a \in Pool}

\* save_articles, lines 249-262: the existing file is read.
ReadExisting(p, batch, key) ==
    /\ pc[p] = "idle"
    /\ nops < MaxOps
    /\ Acquire(p, key)
    /\ job' = [job EXCEPT ![p] = [batch |-> batch, key |-> key]]
    /\ local' = [local EXCEPT ![p] =
                    [articles |-> LoadExisting(files[key]).articles,
                     ids      |-> LoadExisting(files[key]).ids,
                     new      |-> <<>>]]
    /\ pc' = [pc EXCEPT ![p] = "loaded"]
    /\ nops' = nops + 1
    /\ UNCHANGED <<files, last, reported, locking, clsVars, matchVars, mainVars>>

\* save_articles, lines 264-273: the merge, and open(file_path, 'w'), which
\* empties the file.
OpenForWrite(p) ==
    /\ pc[p] = "loaded"
    /\ LET new == NewArticles(job[p].batch, local[p].ids)
       IN  local' = [local EXCEPT ![p] =
                        [articles |-> Retain(AllArticles(local[p].articles, new)),
                         ids      |-> local[p].ids,
                         new      |-> new]]
    /\ files' = [files EXCEPT ![job[p].key] = Corrupt]
    /\ pc' = [pc EXCEPT ![p] = "writing"]
    /\ UNCHANGED <<last, nops, job, reported, lock, locking, clsVars, matchVars, mainVars>>

\* save_articles, lines 274-277: json.dump and the close of the file, then the
\* count of new articles is returned. Text another process wrote into the file
\* since this one opened it is overwritten from the start only: what is left
\* is this process's text, or a mix of both that json.load rejects.
WriteAndReturn(p) ==
    /\ pc[p] = "writing"
    /\ \/ files' = [files EXCEPT ![job[p].key] = Dump(local[p].articles)]
       \/ /\ files[job[p].key].kind = "json"
          /\ files' = [files EXCEPT ![job[p].key] = Corrupt]
    /\ reported' = [reported EXCEPT ![p] =
          @ \cup {<<job[p].key, local[p].new[i].id>> : i \in 1..Len(local[p].new)}]
    /\ Release(p, job[p].key)
    /\ pc' = [pc EXCEPT ![p] = "idle"]
    /\ UNCHANGED <<last, nops, job, local, locking, clsVars, matchVars, mainVars>>

NextProcs ==
    \/ \E p \in Procs, b \in ProcBatches, k \in Keys : ReadExisting(p, b, k)
    \/ \E p \in Procs : OpenForWrite(p)
    \/ \E p \in Procs : WriteAndReturn(p)

InitProcs == StoreInit /\ ClsIdle /\ MatchIdle /\ MainIdle /\ ProcInit

SpecProcs == InitProcs /\ [][NextProcs]_vars

\* An article some finished save reported as newly added is not in the
\* partition, which is readable and below the cap.
LostUpdate ==
    \E p \in Procs : \E r \in reported[p] :
        /\ files[r[1]].kind = "json"
        /\ Len(files[r[1]].data) < Cap
        /\ r[2] \notin Ids(files[r[1]].data)

\* C10: with the load-merge-write cycle of save_articles inside a
\* per-partition exclusion region no interleaving of two saving processes
\* loses an article a save reported as new (without the region one does:
\* LostWithoutLock).
NoLostUpdateUnderLock == locking => ~LostUpdate

\* Without the region: both processes are back from save_articles and an
\* article one of them reported as new is gone from the partition.
LostWithoutLock ==
    /\ ~locking
    /\ \A p \in Procs : pc[p] = "idle"
    /\ \A k \in Keys : files[k].kind # "corrupt"
    /\ LostUpdate

----------------------------------------------------------------------------
(* main: fetch, classify, save, report.                                    *)

\* config['feeds'] of the default configuration: "Hacker News", "Ars Technica".
Feeds == << <<72, 97, 99, 107, 101, 114, 32, 78, 101, 119, 115>>,
            <<65, 114, 115, 32, 84, 101, 99, 104, 110, 105, 99, 97>> >>

\* Title and summary of the entries a feed may hold:
\* "New LLM", "Thai food", "AI" / "hack", "ha" / "ck".
Entries == { <<<<78, 101, 119, 32, 76, 76, 77>>, <<>>>>, <<<<84, 104, 97, 105, 32, 102, 111, 111, 100>>, <<>>>>, <<<<65, 73>>, <<104, 97, 99, 107>>>>, <<<<104, 97>>, <<99, 107>>>> }
\* What one fetcher.fetch call returns ([] when the feed cannot be read).
FeedResults(source) ==
    { [i \in 1..Len(es) |->
          NewArticle(es[i][1], Url(Len(es[i][1])), source, es[i][2], <<50, 48, 53>>)]
      : es \in UNION {[1..n -> Entries] : n \in 0..MaxEntries} }

\* The partitions main can write: "all" and one per bucket name.
MainKeys == {AllKey, Uncategorized} \cup {t.name : t \in TopicPool}

\* The configuration is loaded and the components are built (lines 446-467).
MainInit ==
    /\ files = [k \in MainKeys |-> Missing]
    /\ last = NoOp
    /\ nops = 0
    /\ topics \in TopicLists
    /\ articles = <<>>
    /\ classified = NotClassified
    /\ mainPc = "fetching"
    /\ feed = 0
    /\ pending = <<>>
    /\ saves = <<>>
    /\ reports = 0
    /\ exitCode = "none"

InitMain == MainInit /\ MatchIdle /\ ProcIdle

\* classified.items(): the buckets in the order the dict got its keys (the
\* topics, then 'uncategorized'), the empty ones dropped by classify.
Items(tps, result) ==
    LET names == [t \in 1..Len(tps) |-> tps[t].name] \o <<Uncategorized>>
        Kept(n) == n \in DOMAIN result
    IN  SelectSeq(names, Kept)

\* (a variant: the loop saves every bucket)
SavesBucketAlways(name) == TRUE

\* if topic != 'uncategorized'
SavesBucket(name) == name # Uncategorized

\* The Article objects of a bucket.
BucketArticles(arts, bucket) == [j \in 1..Len(bucket) |-> arts[bucket[j]]]

\* ReportGenerator.generate: articles.sort(key=published, reverse=True) on each
\* bucket list, in place.
SortedBuckets(arts, result) ==
    [k \in DOMAIN result |->
        LET keyed  == [j \in 1..Len(result[k]) |->
                          [published |-> arts[result[k][j]].published,
                           at |-> result[k][j]]]
            sorted == SortDescending(keyed)
        IN  [j \in 1..Len(sorted) |-> sorted[j].at]]

\* articles = fetcher.fetch(...); all_articles.extend(articles)
FetchFeed ==
    /\ mainPc = "fetching"
    /\ feed < Len(Feeds)
    /\ \E got \in FeedResults(Feeds[feed + 1]) : articles' = articles \o got
    /\ feed' = feed + 1
    /\ UNCHANGED <<mainPc, pending, saves, reports, exitCode, topics, classified,
                   storeVars, matchVars, procVars>>

\* if not all_articles: return 1
ReturnNoArticles ==
    /\ mainPc = "fetching"
    /\ feed = Len(Feeds)
    /\ articles = <<>>
    /\ exitCode' = "1"
    /\ mainPc' = "done"
    /\ UNCHANGED <<feed, pending, saves, reports, clsVars, storeVars, matchVars,
                   procVars>>

\* classified = classifier.classify(all_articles)
ClassifyAll ==
    /\ mainPc = "fetching"
    /\ feed = Len(Feeds)
    /\ articles # <<>>
    /\ LET r == Classify(topics, articles)
       IN  /\ classified' = [result |-> r.result, done |-> TRUE]
           /\ articles' = r.articles
    /\ mainPc' = "classified"
    /\ UNCHANGED <<feed, pending, saves, reports, exitCode, topics, storeVars,
                   matchVars, procVars>>

\* storage.save_articles(all_articles, topic="all")
SaveAll ==
    /\ mainPc = "classified"
    /\ files' = [files EXCEPT ![AllKey] = SaveResult(articles, files[AllKey]).file]
    /\ saves' = Append(saves, [key |-> AllKey, batch |-> articles])
    /\ pending' = Items(topics, classified.result)
    /\ mainPc' = "saving"
    /\ UNCHANGED <<last, nops, feed, reports, exitCode, clsVars, matchVars, procVars>>

\* One turn of `for topic, articles in classified.items()`.
SaveBucket ==
    /\ mainPc = "saving"
    /\ pending # <<>>
    /\ LET name  == Head(pending)
           batch == BucketArticles(articles, classified.result[name])
       IN  IF SavesBucket(name)
           THEN /\ files' = [files EXCEPT ![name] = SaveResult(batch, files[name]).file]
                /\ saves' = Append(saves, [key |-> name, batch |-> batch])
           ELSE UNCHANGED <<files, saves>>
    /\ pending' = Tail(pending)
    /\ UNCHANGED <<last, nops, mainPc, feed, reports, exitCode, clsVars, matchVars,
                   procVars>>

\* reporter.generate(classified, top_n=args.top_n)
Report ==
    /\ mainPc = "saving"
    /\ pending = <<>>
    /\ reports' = reports + 1
    /\ classified' = [classified EXCEPT
                         !.result = SortedBuckets(articles, classified.result)]
    /\ mainPc' = "reported"
    /\ UNCHANGED <<feed, pending, saves, exitCode, topics, articles, storeVars,
                   matchVars, procVars>>

\* The summary is printed; return 0
ReturnDone ==
    /\ mainPc = "reported"
    /\ exitCode' = "0"
    /\ mainPc' = "done"
    /\ UNCHANGED <<feed, pending, saves, reports, clsVars, storeVars, matchVars,
                   procVars>>

NextMain ==
    \/ FetchFeed
    \/ ReturnNoArticles
    \/ ClassifyAll
    \/ SaveAll
    \/ SaveBucket
    \/ Report
    \/ ReturnDone

SpecMain == InitMain /\ [][NextMain]_vars

SavesTo(key) == {n \in 1..Len(saves) : saves[n].key = key}
\* The positions of the articles topic t matches, in order.
MatchedBy(t) ==
    LET at == [i \in 1..Len(articles) |-> i]
        Hit(i) == TopicMatches(t, i)
    IN  SelectSeq(at, Hit)

\* C11 as stated: a run that fetched an article ends with exactly one save to
\* every configured topic's partition (and one to "all").
OneSavePerConfiguredTopic ==
    (mainPc = "done" /\ exitCode = "0") =>
        /\ Cardinality(SavesTo(AllKey)) = 1
        /\ \A t \in 1..Len(topics) : Cardinality(SavesTo(topics[t].name)) = 1

\* C11, amended: a run that fetched an article saves, after classification,
\* all fetched articles once to "all" and, once each, the bucket of every
\* configured topic that matched an article (a topic that matched none gets
\* no save, nor does "uncategorized"), then reports once and returns 0; a run
\* that fetched none saves nothing, reports nothing and returns 1.
PipelineWrites ==
    /\ (saves # <<>> \/ reports > 0) => (classified.done /\ articles # <<>>)
    /\ mainPc = "done" => (exitCode \in {"0", "1"} /\ feed = Len(Feeds))
    /\ (mainPc = "done" /\ exitCode = "1") =>
          /\ articles = <<>>
          /\ saves = <<>> /\ reports = 0
          /\ \A k \in MainKeys : files[k] = Missing
    /\ (mainPc = "done" /\ exitCode = "0") =>
          /\ articles # <<>>
          /\ reports = 1
          /\ saves[1] = [key |-> AllKey, batch |-> articles]
          /\ Cardinality(SavesTo(AllKey)) = 1
          /\ \A t \in 1..Len(topics) :
                IF MatchedBy(t) = <<>>
                THEN SavesTo(topics[t].name) = {}
                ELSE /\ Cardinality(SavesTo(topics[t].name)) = 1
                     /\ \A n \in SavesTo(topics[t].name) :
                           saves[n].batch = BucketArticles(articles, MatchedBy(t))
          /\ \A n \in 1..Len(saves) :
                saves[n].key = AllKey \/ \E t \in 1..Len(topics) : saves[n].key = topics[t].name

\* A finished run in which one topic matched and was saved, another matched
\* nothing and was not, and an article went uncategorized.
RunWithUnmatchedTopic ==
    /\ mainPc = "done" /\ exitCode = "0"
    /\ \E t, u \in 1..Len(topics) :
          /\ MatchedBy(t) # <<>> /\ SavesTo(topics[t].name) # {}
          /\ MatchedBy(u) = <<>> /\ SavesTo(topics[u].name) = {}
    /\ Uncategorized \in Buckets
    /\ files[AllKey].kind = "json"

====
